---- MODULE Spec2Model ----
(***************************************************************************)
(* EduVoice: the document-to-audio conversion task (audio/tasks.py), the   *)
(* AudioFile table it writes (audio/models.py) and the audio views that    *)
(* serve the result (audio/views.py).                                      *)
(*                                                                         *)
(* Conventions.  speech_rate is a float in the program; here it is the     *)
(* rate in percent (1.0 is 100).  Text is a sequence of characters.  An    *)
(* exception is represented by its text, str(e); "" means no exception.    *)
(* A Celery task is one record: a retry re-queues the same task id with    *)
(* retries + 1, as Task.retry does.                                        *)
(***************************************************************************)
EXTENDS Integers, Sequences, FiniteSets, TLC

VARIABLES
    config,        \* module-level flags of audio/tasks.py and the settings keys
    users,         \* CustomUser table
    documents,     \* Document table: id -> row
    audio_files,   \* AudioFile table: a sequence, the row's id is its index
    tasks,         \* convert_document_to_audio task instances: task id -> record
    emails,        \* send_conversion_complete_email tasks enqueued (audio ids)
    request,       \* the HTTP request last handled by a view
    response       \* the response the view gave

vars == <<config, users, documents, audio_files, tasks, emails, request, response>>

dbvars == <<config, users, documents, audio_files, tasks, emails>>

----------------------------------------------------------------------------
(* Program constants                                                        *)

max_retries == 3

BaseCountdown == 60

(* AudioFile.Status *)
PENDING == "pending"
PROCESSING == "processing"
COMPLETED == "completed"
FAILED == "failed"

AudioStatus == {PENDING, PROCESSING, COMPLETED, FAILED}

(* CustomUser.Role *)
STUDENT == "student"
TEACHER == "teacher"
ADMIN == "admin"

Role == {STUDENT, TEACHER, ADMIN}

----------------------------------------------------------------------------
(* Bounds and input sets                                                    *)

MaxTextLen == 1

TaskIds == {"t1"}

Chars == {" ", "a"}

SpeechRates == {50, 100, 150}

VoiceTypes == {"female"}

Languages == {"en"}

ApiKeys == {"", "key"}

UserIds == {"u1", "u2"}

CourseIds == {"c1"}

NoCourse == "none"

RECURSIVE SeqsUpTo(_, _)
SeqsUpTo(S, n) ==
    IF n = 0 THEN {<<>>}
    ELSE LET shorter == SeqsUpTo(S, n - 1)
         IN  shorter \cup {Append(s, c) : s \in shorter, c \in S}

Texts == SeqsUpTo(Chars, MaxTextLen)

DocIds == {"d1"}

MaxFileSize == 3

Digits == {"0", "1", "2"}

(* The numbers a Range header may carry: nothing, one digit or two. *)
NumStrings ==
    {<<>>} \cup {<<a>> : a \in Digits} \cup {<<a, b>> : a \in Digits, b \in Digits}

BytesPrefix == <<"b", "y", "t", "e", "s", "=">>

(* HTTP_RANGE: absent (the empty string), or bytes=<start>-<end> *)
RangeHeaders ==
    {<<>>} \cup {BytesPrefix \o a \o <<"-">> \o b : a \in NumStrings, b \in NumStrings}

(* request.query_params.get('token'): None when the parameter is absent *)
AbsentToken == "<absent>"

(* A user id that a signed token may carry and no CustomUser row has. *)
GhostUser == "u0"

Tokens == {AbsentToken, "", "garbage", "expired:u1", "jwt:u1", "jwt:u0"}

Anonymous == "anonymous"

(* A document id a task may name that no Document row has. *)
MissingDocument == "d0"

----------------------------------------------------------------------------
(* Pure helpers                                                             *)

RECURSIVE Pow(_, _)
Pow(b, n) == IF n = 0 THEN 1 ELSE b * Pow(b, n - 1)

RECURSIVE LStrip(_)
LStrip(s) == IF Len(s) > 0 /\ Head(s) = " " THEN LStrip(Tail(s)) ELSE s

RECURSIVE RStrip(_)
RStrip(s) ==
    IF Len(s) > 0 /\ s[Len(s)] = " " THEN RStrip(SubSeq(s, 1, Len(s) - 1)) ELSE s

(* str.strip() *)
Strip(s) == RStrip(LStrip(s))

(* The text test without the strip: only the empty string is refused *)
NoTextContent_EmptyOnly(text) == Len(text) = 0

(* not text or len(text.strip()) == 0 *)
NoTextContent(text) == Len(text) = 0 \/ Len(Strip(text)) = 0

(* GEMINI_CONFIGURED = bool(getattr(settings, 'GEMINI_API_KEY', '')) *)
GEMINI_CONFIGURED(cfg) == cfg.GEMINI_API_KEY # ""

----------------------------------------------------------------------------
(* Records                                                                  *)

NoFile ==
    [present |-> FALSE, on_disk |-> FALSE, size |-> 0,
     engine |-> "", source |-> "", adjusted |-> FALSE]

GeneratedFile(engine, source, adjusted) ==
    [present |-> TRUE, on_disk |-> TRUE, size |-> 1,
     engine |-> engine, source |-> source, adjusted |-> adjusted]

(* AudioFile.objects.create(document, voice_type, speech_rate, language,
   status=PROCESSING, task_id); the other columns take the model defaults. *)
NewAudioFile(task, tid) ==
    [document |-> task.document_id,
     voice_type |-> task.voice_type,
     speech_rate |-> task.speech_rate,
     language |-> task.language,
     status |-> PROCESSING,
     task_id |-> tid,
     error_message |-> "",
     has_duration |-> FALSE,
     download_count |-> 0,
     audio_file |-> NoFile]

NoTask ==
    [state |-> "NONE", document_id |-> "", voice_type |-> "", speech_rate |-> 0,
     language |-> "", use_elevenlabs |-> FALSE, use_gemini |-> FALSE,
     retries |-> 0, countdown |-> 0, pc |-> "none", audio_file |-> 0,
     temp |-> NoFile, attempts |-> 0, error |-> "", trace |-> <<>>]

----------------------------------------------------------------------------
(* TTS engines                                                              *)

Raised(exc, trace) == [exc |-> exc, temp |-> NoFile, trace |-> trace]

Returned(temp, trace) == [exc |-> "", temp |-> temp, trace |-> trace]

(* generate_audio_gtts: gTTS, then the pydub speed change when
   speech_rate != 1.0.  fault names the call that raises, if any. *)
generate_audio_gtts(speech_rate, fault) ==
    IF fault = "tts" THEN Raised("TTS error", <<"gtts">>)
    ELSE IF speech_rate # 100
         THEN IF fault = "pydub"
              THEN Raised("audio error", <<"gtts", "adjust_speed">>)
              ELSE Returned(GeneratedFile("gtts", "original", TRUE),
                            <<"gtts", "adjust_speed">>)
         ELSE Returned(GeneratedFile("gtts", "original", FALSE), <<"gtts">>)

(* generate_audio_elevenlabs: takes no speech_rate and changes no speed. *)
generate_audio_elevenlabs(fault) ==
    IF fault = "tts" THEN Raised("TTS error", <<"elevenlabs">>)
    ELSE Returned(GeneratedFile("elevenlabs", "original", FALSE), <<"elevenlabs">>)

(* The try block of generate_audio_gemini: the LLM call, gTTS on the
   enhanced text (the original text when the response is empty), then the
   speed change.  llm is the outcome of model.generate_content. *)
GeminiTry(speech_rate, llm, fault) ==
    LET source == IF llm = "empty" THEN "original" ELSE "enhanced"
    IN  IF llm = "exc" THEN Raised("LLM error", <<"llm">>)
        ELSE IF fault = "tts" THEN Raised("TTS error", <<"llm", "gtts">>)
        ELSE IF speech_rate # 100
             THEN IF fault = "pydub"
                  THEN Raised("audio error", <<"llm", "gtts", "adjust_speed">>)
                  ELSE Returned(GeneratedFile("gemini", source, TRUE),
                                <<"llm", "gtts", "adjust_speed">>)
             ELSE Returned(GeneratedFile("gemini", source, FALSE), <<"llm", "gtts">>)

(* generate_audio_gemini letting the exception of its try block through *)
generate_audio_gemini_NoFallback(speech_rate, cfg, llm, fault, fallback_fault) ==
    IF ~cfg.GEMINI_AVAILABLE \/ ~GEMINI_CONFIGURED(cfg)
    THEN generate_audio_gtts(speech_rate, fallback_fault)
    ELSE GeminiTry(speech_rate, llm, fault)

(* generate_audio_gemini: falls back to gTTS when Gemini is not usable or
   when anything in the try block raises. *)
generate_audio_gemini(speech_rate, cfg, llm, fault, fallback_fault) ==
    IF ~cfg.GEMINI_AVAILABLE \/ ~GEMINI_CONFIGURED(cfg)
    THEN generate_audio_gtts(speech_rate, fallback_fault)
    ELSE LET try == GeminiTry(speech_rate, llm, fault)
         IN  IF try.exc = "" THEN try
             ELSE LET fb == generate_audio_gtts(speech_rate, fallback_fault)
                  IN  [fb EXCEPT !.trace = try.trace \o <<"caught:" \o try.exc>> \o @]

(* The engine choice with ElevenLabs tested first *)
ChooseEngine_ElevenLabsFirst(use_gemini, use_elevenlabs, cfg) ==
    IF use_elevenlabs /\ cfg.ELEVENLABS_AVAILABLE /\ cfg.ELEVENLABS_API_KEY # ""
    THEN "elevenlabs"
    ELSE IF use_gemini /\ cfg.GEMINI_AVAILABLE /\ GEMINI_CONFIGURED(cfg) THEN "gemini"
    ELSE "gtts"

(* Choose TTS engine (Gemini > ElevenLabs > gTTS). *)
ChooseEngine(use_gemini, use_elevenlabs, cfg) ==
    IF use_gemini /\ cfg.GEMINI_AVAILABLE /\ GEMINI_CONFIGURED(cfg) THEN "gemini"
    ELSE IF use_elevenlabs /\ cfg.ELEVENLABS_AVAILABLE /\ cfg.ELEVENLABS_API_KEY # ""
         THEN "elevenlabs"
    ELSE "gtts"

(* The engine call of the attempt, with the dispatch recorded in the trace. *)
Dispatch(task, cfg, llm, fault, fallback_fault) ==
    LET engine == ChooseEngine(task.use_gemini, task.use_elevenlabs, cfg)
        r == IF engine = "gemini"
             THEN generate_audio_gemini(task.speech_rate, cfg, llm, fault, fallback_fault)
             ELSE IF engine = "elevenlabs"
                  THEN generate_audio_elevenlabs(fault)
                  ELSE generate_audio_gtts(task.speech_rate, fault)
    IN  [r EXCEPT !.trace = <<"dispatch:" \o engine>> \o @]

----------------------------------------------------------------------------
(* convert_document_to_audio                                                *)

(* Retry with the fixed countdown of 60 seconds *)
Retry_FixedCountdown(task, exc) ==
    IF task.retries + 1 > max_retries
    THEN [task EXCEPT !.state = "FAILURE", !.error = exc, !.pc = "done",
                      !.trace = @ \o <<"retry">>]
    ELSE [task EXCEPT !.state = "RETRY", !.error = exc, !.pc = "queued",
                      !.retries = @ + 1,
                      !.countdown = BaseCountdown,
                      !.trace = @ \o <<"retry">>]

(* Retry giving up one attempt late *)
Retry_OneMore(task, exc) ==
    IF task.retries > max_retries
    THEN [task EXCEPT !.state = "FAILURE", !.error = exc, !.pc = "done",
                      !.trace = @ \o <<"retry">>]
    ELSE [task EXCEPT !.state = "RETRY", !.error = exc, !.pc = "queued",
                      !.retries = @ + 1,
                      !.countdown = BaseCountdown * Pow(2, task.retries),
                      !.trace = @ \o <<"retry">>]

(* self.retry(exc=e, countdown=60 * (2 ** self.request.retries)): Celery
   re-raises exc when the retry would exceed max_retries, and otherwise
   re-queues the task with retries + 1 and the countdown. *)
Retry(task, exc) ==
    IF task.retries + 1 > max_retries
    THEN [task EXCEPT !.state = "FAILURE", !.error = exc, !.pc = "done",
                      !.trace = @ \o <<"retry">>]
    ELSE [task EXCEPT !.state = "RETRY", !.error = exc, !.pc = "queued",
                      !.retries = @ + 1,
                      !.countdown = BaseCountdown * Pow(2, task.retries),
                      !.trace = @ \o <<"retry">>]

(* The handler writing the Document status 'error' to the record *)
HandleException_WritesError(task, rows, exc) ==
    IF task.audio_file = 0
    THEN [task |-> [task EXCEPT !.state = "FAILURE", !.pc = "done",
                                !.error = "UnboundLocalError",
                                !.trace = @ \o <<"raised:" \o exc>>],
          rows |-> rows]
    ELSE [task |-> Retry([task EXCEPT !.trace = @ \o <<"raised:" \o exc, "save_failed">>],
                         exc),
          rows |-> [rows EXCEPT ![task.audio_file] =
                        [@ EXCEPT !.status = "error", !.error_message = exc]]]

(* The handler retrying without having saved the record *)
HandleException_NoSave(task, rows, exc) ==
    IF task.audio_file = 0
    THEN [task |-> [task EXCEPT !.state = "FAILURE", !.pc = "done",
                                !.error = "UnboundLocalError",
                                !.trace = @ \o <<"raised:" \o exc>>],
          rows |-> rows]
    ELSE [task |-> Retry([task EXCEPT !.trace = @ \o <<"raised:" \o exc>>], exc),
          rows |-> rows]

(* except Exception as e: mark the attempt's record failed, save it, retry.
   When the local audio_file was never bound (Document.objects.get raised)
   the handler itself raises UnboundLocalError and the task fails. *)
HandleException(task, rows, exc) ==
    IF task.audio_file = 0
    THEN [task |-> [task EXCEPT !.state = "FAILURE", !.pc = "done",
                                !.error = "UnboundLocalError",
                                !.trace = @ \o <<"raised:" \o exc>>],
          rows |-> rows]
    ELSE [task |-> Retry([task EXCEPT !.trace = @ \o <<"raised:" \o exc, "save_failed">>],
                         exc),
          rows |-> [rows EXCEPT ![task.audio_file] =
                        [@ EXCEPT !.status = FAILED, !.error_message = exc]]]

(* convert_document_to_audio.delay(...) *)
Enqueue(t) ==
    /\ tasks[t].state = "NONE"
    /\ \E d \in DocIds \cup {MissingDocument}, v \in VoiceTypes, r \in SpeechRates,
          l \in Languages, el \in BOOLEAN, gm \in BOOLEAN :
          tasks' = [tasks EXCEPT ![t] =
                       [NoTask EXCEPT !.state = "PENDING", !.pc = "queued",
                                      !.document_id = d, !.voice_type = v,
                                      !.speech_rate = r, !.language = l,
                                      !.use_elevenlabs = el, !.use_gemini = gm]]
    /\ UNCHANGED <<config, users, documents, audio_files, emails, request, response>>

(* A worker starts an attempt: Document.objects.get, AudioFile.objects.create *)
Begin(t) ==
    /\ tasks[t].pc = "queued"
    /\ LET task == [tasks[t] EXCEPT !.state = "STARTED", !.attempts = @ + 1,
                                    !.audio_file = 0, !.temp = NoFile,
                                    !.error = "", !.trace = <<>>]
       IN  IF task.document_id \notin DOMAIN documents
           THEN LET h == HandleException(task, audio_files,
                                         "Document matching query does not exist.")
                IN  /\ tasks' = [tasks EXCEPT ![t] = h.task]
                    /\ audio_files' = h.rows
           ELSE /\ audio_files' = Append(audio_files, NewAudioFile(task, t))
                /\ tasks' = [tasks EXCEPT ![t] =
                                [task EXCEPT !.pc = "created",
                                             !.audio_file = Len(audio_files) + 1,
                                             !.trace = <<"create">>]]
    /\ UNCHANGED <<config, users, documents, emails, request, response>>

(* The attempt from the text check to the save of the completed record. *)
Generate(t) ==
    /\ tasks[t].pc = "created"
    /\ \E llm \in {"ok", "empty", "exc"}, fault \in {"none", "tts", "pydub"},
          fallback_fault \in {"none", "tts", "pydub"}, probe_fault \in BOOLEAN :
          LET task == tasks[t]
              text == documents[task.document_id].extracted_text
              out  == IF NoTextContent(text)
                      THEN Raised("No text content found in document", <<>>)
                      ELSE Dispatch(task, config, llm, fault, fallback_fault)
              ran  == [task EXCEPT !.trace = @ \o out.trace, !.temp = out.temp]
          IN  IF out.exc # ""
              THEN LET h == HandleException(ran, audio_files, out.exc)
                   IN  /\ tasks' = [tasks EXCEPT ![t] = h.task]
                       /\ audio_files' = h.rows
              ELSE IF probe_fault
              THEN LET h == HandleException([ran EXCEPT !.trace = @ \o <<"probe_duration">>],
                                            audio_files, "audio error")
                   IN  /\ tasks' = [tasks EXCEPT ![t] = h.task]
                       /\ audio_files' = h.rows
              ELSE /\ audio_files' = [audio_files EXCEPT ![task.audio_file] =
                                         [@ EXCEPT !.audio_file = out.temp,
                                                   !.has_duration = TRUE,
                                                   !.status = COMPLETED]]
                   /\ tasks' = [tasks EXCEPT ![t] =
                                   [ran EXCEPT !.pc = "saved",
                                               !.trace = @ \o <<"probe_duration", "save_file",
                                                                "save_completed">>]]
    /\ UNCHANGED <<config, users, documents, emails, request, response>>

(* The rest of the attempt: os.remove(temp_path), the e-mail task, return. *)
Finish(t) ==
    /\ tasks[t].pc = "saved"
    /\ \E fault \in {"none", "remove", "email"} :
          LET task == tasks[t]
          IN  IF fault = "remove"
              THEN LET h == HandleException([task EXCEPT !.trace = @ \o <<"remove_temp">>],
                                            audio_files, "cleanup error")
                   IN  /\ tasks' = [tasks EXCEPT ![t] = h.task]
                       /\ audio_files' = h.rows
                       /\ emails' = emails
              ELSE IF fault = "email"
              THEN LET h == HandleException(
                                [task EXCEPT !.trace = @ \o <<"remove_temp", "send_email">>,
                                             !.temp = NoFile],
                                audio_files, "cleanup error")
                   IN  /\ tasks' = [tasks EXCEPT ![t] = h.task]
                       /\ audio_files' = h.rows
                       /\ emails' = emails
              ELSE /\ tasks' = [tasks EXCEPT ![t] =
                                   [task EXCEPT !.state = "SUCCESS", !.pc = "done",
                                                !.temp = NoFile,
                                                !.trace = @ \o <<"remove_temp", "send_email">>]]
                   /\ emails' = emails \cup {task.audio_file}
                   /\ audio_files' = audio_files
    /\ UNCHANGED <<config, users, documents, request, response>>

----------------------------------------------------------------------------
(* HTTP requests and responses                                              *)

NoRequest ==
    [view |-> "none", user |-> Anonymous, token |-> AbsentToken, pk |-> 0, range |-> <<>>]

NoResponse ==
    [status |-> 0, text |-> "", body |-> <<>>, content_range |-> <<>>,
     content_length |-> -1, accept_ranges |-> "", ids |-> {},
     data |-> [status |-> "", progress |-> "", error_message |-> ""]]

(* HttpResponse(text, status=..., content_type='text/plain') *)
TextResponse(status, text) == [NoResponse EXCEPT !.status = status, !.text = text]

(* The bytes of a stored audio file of the given size: byte i is i. *)
FileBytes(size) == [i \in 1..size |-> i - 1]

(* file_handle.seek(start); file_handle.read(n): n < 0 reads to the end *)
SeekRead(content, start, n) ==
    IF start >= Len(content) \/ n = 0 THEN <<>>
    ELSE IF n < 0 \/ start + n > Len(content)
         THEN SubSeq(content, start + 1, Len(content))
         ELSE SubSeq(content, start + 1, start + n)

IsPrefixAt(s, pat, i) ==
    /\ i + Len(pat) - 1 <= Len(s)
    /\ SubSeq(s, i, i + Len(pat) - 1) = pat

(* str.replace(pat, ''): drops every occurrence of pat, left to right *)
RECURSIVE Remove(_, _)
Remove(s, pat) ==
    IF Len(s) = 0 THEN <<>>
    ELSE IF IsPrefixAt(s, pat, 1)
         THEN Remove(SubSeq(s, Len(pat) + 1, Len(s)), pat)
         ELSE <<Head(s)>> \o Remove(Tail(s), pat)

(* str.split(sep) for a one-character separator *)
RECURSIVE Split(_, _)
Split(s, sep) ==
    IF \A i \in 1..Len(s) : s[i] # sep THEN <<s>>
    ELSE LET k == CHOOSE i \in 1..Len(s) : s[i] = sep /\ \A j \in 1..(i - 1) : s[j] # sep
         IN  <<SubSeq(s, 1, k - 1)>> \o Split(SubSeq(s, k + 1, Len(s)), sep)

DigitValue(c) == IF c = "0" THEN 0 ELSE IF c = "1" THEN 1 ELSE IF c = "2" THEN 2
                 ELSE IF c = "3" THEN 3 ELSE IF c = "4" THEN 4 ELSE IF c = "5" THEN 5
                 ELSE IF c = "6" THEN 6 ELSE IF c = "7" THEN 7 ELSE IF c = "8" THEN 8
                 ELSE IF c = "9" THEN 9 ELSE -1

(* int(s) of a string of decimal digits; ok is FALSE for a ValueError *)
RECURSIVE ParseInt(_)
ParseInt(s) ==
    IF Len(s) = 0 THEN [ok |-> FALSE, value |-> 0]
    ELSE IF DigitValue(s[Len(s)]) < 0 THEN [ok |-> FALSE, value |-> 0]
    ELSE IF Len(s) = 1 THEN [ok |-> TRUE, value |-> DigitValue(s[1])]
    ELSE LET rest == ParseInt(SubSeq(s, 1, Len(s) - 1))
         IN  [ok |-> rest.ok, value |-> 10 * rest.value + DigitValue(s[Len(s)])]

(* The parse with an omitted end taken as the file size *)
ParseRange_EndIsSize(range_header, file_size) ==
    LET range_match == Split(Remove(range_header, BytesPrefix), "-")
        first  == range_match[1]
        second == IF Len(range_match) > 1 THEN range_match[2] ELSE <<>>
        start  == IF Len(first) > 0 THEN ParseInt(first) ELSE [ok |-> TRUE, value |-> 0]
        end    == IF Len(second) > 0 THEN ParseInt(second)
                  ELSE [ok |-> TRUE, value |-> file_size]
    IN  [ok |-> start.ok /\ end.ok, start |-> start.value, end |-> end.value]

(* The start and end of a Range header, as stream parses them *)
ParseRange(range_header, file_size) ==
    LET range_match == Split(Remove(range_header, BytesPrefix), "-")
        first  == range_match[1]
        second == IF Len(range_match) > 1 THEN range_match[2] ELSE <<>>
        start  == IF Len(first) > 0 THEN ParseInt(first) ELSE [ok |-> TRUE, value |-> 0]
        end    == IF Len(second) > 0 THEN ParseInt(second)
                  ELSE [ok |-> TRUE, value |-> file_size - 1]
    IN  [ok |-> start.ok /\ end.ok, start |-> start.value, end |-> end.value]

(* The response of stream once the file is known to exist *)
RangeResponse(range_header, file_size) ==
    IF Len(Strip(range_header)) > 0
    THEN LET r == ParseRange(Strip(range_header), file_size)
         IN  IF ~r.ok THEN TextResponse(500, "ValueError")
             ELSE [NoResponse EXCEPT
                      !.status = 206,
                      !.body = SeekRead(FileBytes(file_size), r.start, r.end - r.start + 1),
                      !.content_range = <<"bytes", r.start, r.end, file_size>>,
                      !.content_length = r.end - r.start + 1,
                      !.accept_ranges = "bytes"]
    ELSE [NoResponse EXCEPT !.status = 200,
                            !.body = FileBytes(file_size),
                            !.content_length = file_size,
                            !.accept_ranges = "bytes"]

----------------------------------------------------------------------------
(* Users and access                                                         *)

is_teacher(user) == users[user].role = TEACHER

is_admin_role(user) == users[user].role = ADMIN

(* JWTAuthentication.get_validated_token: raises InvalidToken unless the
   token is a signed, unexpired JWT *)
TokenIsValid(token) == token \in {"jwt:u1", "jwt:u0"}

(* The user id claim of a validated token *)
TokenUser(token) == IF token = "jwt:u1" THEN "u1" ELSE GhostUser

(* has_access granting every authenticated user *)
has_access_Everyone(user, document) == TRUE

(* has_access of stream *)
has_access(user, document) ==
    IF is_admin_role(user) THEN TRUE
    ELSE IF document.is_public THEN TRUE
    ELSE IF document.uploaded_by = user THEN TRUE
    ELSE IF is_teacher(user) THEN TRUE
    ELSE IF document.course # NoCourse /\ document.course \in users[user].enrolled_courses
         THEN TRUE
    ELSE FALSE

(* stream after authentication, for the acting user *)
StreamFor(user, req) ==
    IF req.pk \notin DOMAIN audio_files THEN TextResponse(404, "Audio file not found")
    ELSE LET audio_file == audio_files[req.pk]
             document == documents[audio_file.document]
         IN  IF ~has_access(user, document) THEN TextResponse(403, "Access denied")
             ELSE IF ~audio_file.audio_file.present
                  THEN TextResponse(404, "Audio file not available")
             ELSE IF ~audio_file.audio_file.on_disk
                  THEN TextResponse(404, "File not found on disk")
             ELSE RangeResponse(req.range, audio_file.audio_file.size)

(* stream falling back to the request's user when the token is refused *)
StreamResponses_IgnoresBadToken(req) ==
    IF req.token \notin {AbsentToken, ""} /\ TokenIsValid(req.token)
       /\ TokenUser(req.token) \in DOMAIN users
    THEN {StreamFor(TokenUser(req.token), req)}
    ELSE IF req.user = Anonymous
         THEN {TextResponse(401, "Authentication required")}
         ELSE {StreamFor(req.user, req)}

(* AudioFileViewSet.stream.  get_user raises AuthenticationFailed for a
   token whose user does not exist; the framework answers 401 or 403.
   The views keep no state between requests, so a behaviour handles one
   request: a view acts when no request has been handled yet. *)
StreamResponses(req) ==
    IF req.token \notin {AbsentToken, ""}
    THEN IF ~TokenIsValid(req.token)
         THEN {TextResponse(401, "Invalid or expired token")}
         ELSE IF TokenUser(req.token) \notin DOMAIN users
              THEN {TextResponse(401, "User not found"), TextResponse(403, "User not found")}
              ELSE {StreamFor(TokenUser(req.token), req)}
    ELSE IF req.user = Anonymous
         THEN {TextResponse(401, "Authentication required")}
         ELSE {StreamFor(req.user, req)}

Stream ==
    /\ request = NoRequest
    /\ \E user \in {Anonymous, "u1"}, token \in Tokens,
          pk \in 1..(Len(audio_files) + 1), range \in RangeHeaders :
          /\ request' = [view |-> "stream", user |-> user, token |-> token,
                         pk |-> pk, range |-> range]
          /\ response' \in StreamResponses(request')
    /\ UNCHANGED dbvars

----------------------------------------------------------------------------
(* The list, retrieve, download, status and my_audio views                  *)

(* get_queryset without the status filter *)
get_queryset_AnyStatus(user) ==
    IF is_admin_role(user) THEN DOMAIN audio_files
    ELSE LET accessible_docs ==
                 IF is_teacher(user)
                 THEN {d \in DOMAIN documents :
                          documents[d].uploaded_by = user \/ documents[d].is_public}
                 ELSE {d \in DOMAIN documents :
                          \/ documents[d].is_public
                          \/ documents[d].course \in users[user].enrolled_courses
                          \/ documents[d].uploaded_by = user}
         IN  {i \in DOMAIN audio_files : audio_files[i].document \in accessible_docs}

(* AudioFileViewSet.get_queryset: the ids of the rows the user may see *)
get_queryset(user) ==
    IF is_admin_role(user) THEN DOMAIN audio_files
    ELSE LET accessible_docs ==
                 IF is_teacher(user)
                 THEN {d \in DOMAIN documents :
                          documents[d].uploaded_by = user \/ documents[d].is_public}
                 ELSE {d \in DOMAIN documents :
                          \/ documents[d].is_public
                          \/ documents[d].course \in users[user].enrolled_courses
                          \/ documents[d].uploaded_by = user}
         IN  {i \in DOMAIN audio_files :
                 /\ audio_files[i].document \in accessible_docs
                 /\ audio_files[i].status = COMPLETED}

(* A 200 response carrying the serialized rows ids *)
RowsResponse(ids) == [NoResponse EXCEPT !.status = 200, !.ids = ids]

(* permission_classes = [IsAuthenticated]: the framework refuses an
   anonymous request with 401 or 403 before the view runs *)
NotAuthenticated ==
    {TextResponse(401, "Authentication credentials were not provided."),
     TextResponse(403, "Authentication credentials were not provided.")}

ViewRequest(view, user, pk) ==
    [view |-> view, user |-> user, token |-> AbsentToken, pk |-> pk, range |-> <<>>]

(* list *)
List ==
    /\ request = NoRequest
    /\ \E user \in UserIds \cup {Anonymous} :
          /\ request' = ViewRequest("list", user, 0)
          /\ IF user = Anonymous THEN response' \in NotAuthenticated
             ELSE response' = RowsResponse(get_queryset(user))
    /\ UNCHANGED dbvars

(* retrieve: get_object answers 404 outside the queryset *)
Retrieve ==
    /\ request = NoRequest
    /\ \E user \in UserIds \cup {Anonymous}, pk \in 1..(Len(audio_files) + 1) :
          /\ request' = ViewRequest("retrieve", user, pk)
          /\ IF user = Anonymous THEN response' \in NotAuthenticated
             ELSE IF pk \notin get_queryset(user)
                  THEN response' = TextResponse(404, "Not found.")
                  ELSE response' = RowsResponse({pk})
    /\ UNCHANGED dbvars

(* download: counts the download, then serves the file if it is on disk *)
Download ==
    /\ request = NoRequest
    /\ \E user \in UserIds \cup {Anonymous}, pk \in 1..(Len(audio_files) + 1) :
          /\ request' = ViewRequest("download", user, pk)
          /\ IF user = Anonymous
             THEN response' \in NotAuthenticated /\ audio_files' = audio_files
             ELSE IF pk \notin get_queryset(user)
                  THEN /\ response' = TextResponse(404, "Not found.")
                       /\ audio_files' = audio_files
             ELSE IF ~audio_files[pk].audio_file.present
                  THEN /\ response' = TextResponse(404, "Audio file not available.")
                       /\ audio_files' = audio_files
             ELSE /\ audio_files' = [audio_files EXCEPT ![pk].download_count = @ + 1]
                  /\ IF audio_files[pk].audio_file.on_disk
                     THEN response' = [RowsResponse({pk}) EXCEPT
                                          !.body = FileBytes(audio_files[pk].audio_file.size)]
                     ELSE response' = TextResponse(404, "File not found.")
    /\ UNCHANGED <<config, users, documents, tasks, emails>>

(* status: the row's status, the Celery state while processing, the error
   message when failed *)
Status ==
    /\ request = NoRequest
    /\ \E user \in UserIds \cup {Anonymous}, pk \in 1..(Len(audio_files) + 1) :
          /\ request' = ViewRequest("status", user, pk)
          /\ IF user = Anonymous THEN response' \in NotAuthenticated
             ELSE IF pk \notin get_queryset(user)
                  THEN response' = TextResponse(404, "Not found.")
                  ELSE response' =
                         [RowsResponse({pk}) EXCEPT
                             !.data = [status |-> audio_files[pk].status,
                                       progress |->
                                           IF audio_files[pk].task_id # ""
                                              /\ audio_files[pk].status = PROCESSING
                                           THEN tasks[audio_files[pk].task_id].state
                                           ELSE "",
                                       error_message |->
                                           IF audio_files[pk].status = FAILED
                                           THEN audio_files[pk].error_message
                                           ELSE ""]]
    /\ UNCHANGED dbvars

(* my_audio: the queryset narrowed to the documents the user uploaded *)
MyAudio ==
    /\ request = NoRequest
    /\ \E user \in UserIds \cup {Anonymous} :
          /\ request' = ViewRequest("my_audio", user, 0)
          /\ IF user = Anonymous THEN response' \in NotAuthenticated
             ELSE response' =
                    RowsResponse({i \in get_queryset(user) :
                                     documents[audio_files[i].document].uploaded_by = user})
    /\ UNCHANGED dbvars

----------------------------------------------------------------------------
(* Specification of the conversion pipeline                                 *)


DefaultUsers ==
    [u \in UserIds |-> [role |-> STUDENT, enrolled_courses |-> {}]]

Configs ==
    [GEMINI_AVAILABLE : BOOLEAN, GEMINI_API_KEY : ApiKeys,
     ELEVENLABS_AVAILABLE : BOOLEAN, ELEVENLABS_API_KEY : ApiKeys]

Init ==
    /\ config \in Configs
    /\ users = DefaultUsers
    /\ \E text \in Texts :
          documents = [d \in DocIds |->
                          [extracted_text |-> text, uploaded_by |-> "u1",
                           is_public |-> FALSE, course |-> NoCourse]]
    /\ audio_files = <<>>
    /\ tasks = [t \in TaskIds |-> NoTask]
    /\ emails = {}
    /\ request = NoRequest
    /\ response = NoResponse

Next ==
    \E t \in TaskIds :
        \/ Enqueue(t)
        \/ Begin(t)
        \/ Generate(t)
        \/ Finish(t)

Spec == Init /\ [][Next]_vars

----------------------------------------------------------------------------
(* Specification of the stream view over a stored audio file               *)

StoredFiles ==
    {NoFile, [NoFile EXCEPT !.present = TRUE]}
    \cup {[present |-> TRUE, on_disk |-> TRUE, size |-> n,
           engine |-> "gtts", source |-> "original", adjusted |-> FALSE] :
          n \in 1..MaxFileSize}

StoredAudio(doc, status, file) ==
    [document |-> doc, voice_type |-> "female", speech_rate |-> 100,
     language |-> "en", status |-> status, task_id |-> "t1",
     error_message |-> "", has_duration |-> file.present,
     download_count |-> 0, audio_file |-> file]

InitStream ==
    /\ config \in {[GEMINI_AVAILABLE |-> FALSE, GEMINI_API_KEY |-> "",
                    ELEVENLABS_AVAILABLE |-> FALSE, ELEVENLABS_API_KEY |-> ""]}
    /\ \E role \in Role, enrolled \in SUBSET CourseIds :
          users = [u \in UserIds |->
                      IF u = "u1" THEN [role |-> role, enrolled_courses |-> enrolled]
                      ELSE [role |-> STUDENT, enrolled_courses |-> {}]]
    /\ \E pub \in BOOLEAN, owner \in UserIds, course \in CourseIds \cup {NoCourse} :
          documents = [d \in DocIds |->
                          [extracted_text |-> <<"a">>, uploaded_by |-> owner,
                           is_public |-> pub, course |-> course]]
    /\ \E status \in {PROCESSING, COMPLETED}, file \in StoredFiles :
          audio_files = <<StoredAudio("d1", status, file)>>
    /\ tasks = [t \in TaskIds |-> NoTask]
    /\ emails = {}
    /\ request = NoRequest
    /\ response = NoResponse

StreamSpec == InitStream /\ [][Stream]_vars

----------------------------------------------------------------------------
(* The conversion pipeline with a worker that keeps running queued tasks    *)

WorkerStep == \E t \in TaskIds : Begin(t) \/ Generate(t) \/ Finish(t)

(* Every provider importable and configured: the task's flags alone pick
   the engine, so all three engines and all their faults are reachable. *)
InitAllEngines ==
    /\ Init
    /\ config = [GEMINI_AVAILABLE |-> TRUE, GEMINI_API_KEY |-> "key",
                 ELEVENLABS_AVAILABLE |-> TRUE, ELEVENLABS_API_KEY |-> "key"]

RetrySpec == InitAllEngines /\ [][Next]_vars /\ WF_vars(WorkerStep)

----------------------------------------------------------------------------
(* Properties of the conversion task                                        *)

Rows == DOMAIN audio_files

Events(t) == {tasks[t].trace[i] : i \in DOMAIN tasks[t].trace}

(* The positions of an event in the trace of a task's current attempt *)
Positions(t, ev) == {i \in DOMAIN tasks[t].trace : tasks[t].trace[i] = ev}

(* A step of the task creates rows as processing and changes the status of
   an existing row only to completed or failed. *)
StatusWrites ==
    /\ \A i \in DOMAIN audio_files' \ Rows : audio_files'[i].status = "processing"
    /\ \A i \in Rows :
          /\ i \in DOMAIN audio_files'
          /\ audio_files'[i].status # audio_files[i].status
                => audio_files'[i].status \in {"completed", "failed"}

(* C1: every AudioFile status is one of pending, processing, completed,
   failed; the task creates its record as processing and afterwards writes
   only completed or failed to it. *)
C1_FourStatusValues ==
    /\ [](\A i \in Rows :
             audio_files[i].status \in {"pending", "processing", "completed", "failed"})
    /\ [][StatusWrites]_vars

C1_Witness ==
    /\ \E i \in Rows : audio_files[i].status = "failed"
    /\ \E i \in Rows : audio_files[i].status = "completed"

----------------------------------------------------------------------------
ExceptionTexts ==
    {"TTS error", "audio error", "cleanup error", "LLM error",
     "No text content found in document"}

(* The attempt of task t has bound its local audio_file to a row *)
HasRecord(t) == tasks[t].audio_file \in Rows

(* The row of the current attempt is failed with the text e, saved before
   the retry was requested *)
FailedThenRetried(t, e) ==
    /\ audio_files[tasks[t].audio_file].status = "failed"
    /\ audio_files[tasks[t].audio_file].error_message = e
    /\ \E i \in Positions(t, "save_failed") : \E j \in Positions(t, "retry") : i < j
    /\ tasks[t].state \in {"RETRY", "FAILURE"}

(* C2 as stated: whatever exception the TTS, LLM or audio SDK raises in an
   attempt whose record exists, the record is saved failed with the
   exception's text and then a retry is requested. *)
C2_EveryExceptionFailsRecord ==
    \A t \in TaskIds : \A e \in ExceptionTexts :
        (HasRecord(t) /\ Events(t) \cap {"raised:" \o e, "caught:" \o e} # {})
        => FailedThenRetried(t, e)

(* C2 amended: every exception that leaves the try body of the task, which
   excludes those raised and caught inside generate_audio_gemini, has its
   record saved failed with the exception's text before the retry. *)
C2_EscapingExceptionFailsRecord ==
    \A t \in TaskIds : \A e \in ExceptionTexts :
        (HasRecord(t) /\ ("raised:" \o e) \in Events(t)) => FailedThenRetried(t, e)

C2_Witness ==
    \E t \in TaskIds :
        /\ HasRecord(t)
        /\ "raised:audio error" \in Events(t)
        /\ "caught:LLM error" \in Events(t)
        /\ audio_files[tasks[t].audio_file].error_message = "audio error"

(* C3: a task that failed after k retries (k = 0, 1, 2) is re-queued with a
   countdown of 60, 120, 240 seconds. *)
C3_Backoff ==
    \A t \in TaskIds :
        tasks[t].state = "RETRY" =>
            /\ tasks[t].retries \in {1, 2, 3}
            /\ tasks[t].retries = 1 => tasks[t].countdown = 60
            /\ tasks[t].retries = 2 => tasks[t].countdown = 120
            /\ tasks[t].retries = 3 => tasks[t].countdown = 240

C3_Witness ==
    \E t \in TaskIds : tasks[t].state = "RETRY" /\ tasks[t].countdown = 240

Terminated(t) == tasks[t].state \in {"SUCCESS", "FAILURE"}

(* C4: at most four attempts; after a failed fourth attempt nothing is
   queued and the task has failed; a finished task stays finished; every
   task that was enqueued terminates. *)
C4_AtMostFourAttempts ==
    /\ [](\A t \in TaskIds :
             /\ tasks[t].attempts <= 4
             /\ tasks[t].attempts = 4 => tasks[t].state # "RETRY")
    /\ [][\A t \in TaskIds : Terminated(t) => tasks'[t] = tasks[t]]_vars
    /\ \A t \in TaskIds : (tasks[t].state # "NONE") ~> Terminated(t)

C4_Witness ==
    \E t \in TaskIds :
        /\ tasks[t].attempts = 4
        /\ tasks[t].state = "FAILURE"
        /\ \A i \in Rows : audio_files[i].status = "failed"
        /\ Len(audio_files) = 4

(* C5 as stated: one AudioFile row per conversion task over all attempts *)
C5_SingleRowPerTask ==
    \A t \in TaskIds : Cardinality({i \in Rows : audio_files[i].task_id = t}) <= 1

(* C6: each attempt dispatches to one engine: Gemini iff asked for and
   usable, else ElevenLabs iff asked for and usable, else gTTS. *)
C6_EnginePriority ==
    \A t \in TaskIds :
        LET task == tasks[t]
            gemini == task.use_gemini /\ config.GEMINI_AVAILABLE
                      /\ config.GEMINI_API_KEY # ""
            eleven == task.use_elevenlabs /\ config.ELEVENLABS_AVAILABLE
                      /\ config.ELEVENLABS_API_KEY # ""
            chosen == Events(t) \cap {"dispatch:gemini", "dispatch:elevenlabs",
                                      "dispatch:gtts"}
        IN  /\ Cardinality(chosen) <= 1
            /\ Cardinality(Positions(t, "dispatch:gemini")
                           \cup Positions(t, "dispatch:elevenlabs")
                           \cup Positions(t, "dispatch:gtts")) <= 1
            /\ task.pc = "saved" => chosen # {}
            /\ chosen # {} =>
                  /\ ("dispatch:gemini" \in chosen) <=> gemini
                  /\ ("dispatch:elevenlabs" \in chosen) <=> (~gemini /\ eleven)
                  /\ ("dispatch:gtts" \in chosen) <=> (~gemini /\ ~eleven)

C6_Witness ==
    \E t \in TaskIds :
        /\ tasks[t].use_gemini /\ tasks[t].use_elevenlabs
        /\ config.GEMINI_AVAILABLE /\ config.GEMINI_API_KEY # ""
        /\ config.ELEVENLABS_AVAILABLE /\ config.ELEVENLABS_API_KEY # ""
        /\ "dispatch:gemini" \in Events(t)
        /\ tasks[t].pc = "saved"

(* C7 as stated: whichever engine produced it, the saved audio went through
   the speed adjustment iff speech_rate differs from 1.0 *)
C7_SpeedAdjustedIffRateNotOne ==
    \A i \in Rows :
        audio_files[i].audio_file.present =>
            (audio_files[i].audio_file.adjusted <=> audio_files[i].speech_rate # 100)

----------------------------------------------------------------------------
(* Properties of the stream view                                            *)

(* The request is authenticated: by a signed, unexpired token of an existing
   user, or, with no token, by the request's own user *)
AuthenticatedRequest ==
    \/ request.token = "jwt:u1"
    \/ request.token \in {"<absent>", ""} /\ request.user # "anonymous"

(* C8 as stated: a token parameter that is present and is no valid JWT gets
   401 'Invalid or expired token'; no token and no authenticated user gets
   401 'Authentication required'; nothing is served unauthenticated. *)
C8_PresentTokenMustBeValid ==
    request.view = "stream" =>
        /\ (request.token # "<absent>" /\ request.token \notin {"jwt:u1", "jwt:u0"})
              => (response.status = 401 /\ response.text = "Invalid or expired token")
        /\ (request.token = "<absent>" /\ request.user = "anonymous")
              => (response.status = 401 /\ response.text = "Authentication required")
        /\ response.status \in {200, 206} => AuthenticatedRequest

(* C8 amended: the token is validated when it is present and not empty; an
   absent or empty token leaves the request's own user to authenticate. *)
C8_StreamNeedsAuthentication ==
    request.view = "stream" =>
        /\ (request.token \notin {"<absent>", ""}
               /\ request.token \notin {"jwt:u1", "jwt:u0"})
              => (response.status = 401 /\ response.text = "Invalid or expired token")
        /\ (request.token \in {"<absent>", ""} /\ request.user = "anonymous")
              => (response.status = 401 /\ response.text = "Authentication required")
        /\ response.status \in {200, 206} => AuthenticatedRequest
        /\ ~AuthenticatedRequest => response.body = <<>>

C8_Witness ==
    /\ request.view = "stream"
    /\ request.token = "jwt:u1"
    /\ request.user = "anonymous"
    /\ response.status = 206
    /\ Len(response.body) > 0

(* The decimal numerals of n, with and without a leading zero *)
Numerals(n) ==
    LET digit == [i \in 0..9 |-> <<"0", "1", "2", "3", "4", "5", "6", "7", "8", "9">>[i + 1]]
    IN  IF n \in 0..9 THEN {<<digit[n]>>, <<"0", digit[n]>>} ELSE {}

ServedFileSize == audio_files[request.pk].audio_file.size

(* The bytes at offsets first..last of the served file *)
BytesOf(first, last) == [i \in 1..(last - first + 1) |-> first + i - 1]

(* C9: Range 'bytes=start-end' with 0 <= start <= end < size gives 206 with
   Content-Range 'bytes start-end/size', Content-Length end-start+1 and the
   bytes start..end; an omitted end is size-1; no Range header gives the
   whole file with Content-Length size and Accept-Ranges: bytes. *)
C9_RangeResponse ==
    (request.view = "stream" /\ response.status \notin {401, 403, 404}) =>
        LET size == ServedFileSize
            prefix == <<"b", "y", "t", "e", "s", "=">>
        IN  /\ \A start \in 0..(size - 1) : \A end \in start..(size - 1) :
                  request.range \in {prefix \o a \o <<"-">> \o b :
                                        a \in Numerals(start), b \in Numerals(end)}
                  => /\ response.status = 206
                     /\ response.content_range = <<"bytes", start, end, size>>
                     /\ response.content_length = end - start + 1
                     /\ response.body = BytesOf(start, end)
            /\ \A start \in 0..(size - 1) :
                  request.range \in {prefix \o a \o <<"-">> : a \in Numerals(start)}
                  => /\ response.status = 206
                     /\ response.content_range = <<"bytes", start, size - 1, size>>
                     /\ response.content_length = size - start
                     /\ response.body = BytesOf(start, size - 1)
            /\ request.range = <<>>
                  => /\ response.status = 200
                     /\ response.content_length = size
                     /\ response.accept_ranges = "bytes"
                     /\ response.body = BytesOf(0, size - 1)

C9_Witness ==
    /\ request.view = "stream"
    /\ request.range = <<"b", "y", "t", "e", "s", "=", "1", "-", "0", "2">>
    /\ response.status = 206
    /\ response.body = <<1, 2>>
    /\ response.content_range = <<"bytes", 1, 2, 3>>

----------------------------------------------------------------------------
(* Specification of the queryset views over a stored table                  *)

QueryFiles ==
    {NoFile,
     [present |-> TRUE, on_disk |-> TRUE, size |-> 1,
      engine |-> "gtts", source |-> "original", adjusted |-> FALSE]}

InitQuery ==
    /\ config \in {[GEMINI_AVAILABLE |-> FALSE, GEMINI_API_KEY |-> "",
                    ELEVENLABS_AVAILABLE |-> FALSE, ELEVENLABS_API_KEY |-> ""]}
    /\ \E role \in Role, enrolled \in SUBSET CourseIds :
          users = [u \in UserIds |->
                      IF u = "u1" THEN [role |-> role, enrolled_courses |-> enrolled]
                      ELSE [role |-> STUDENT, enrolled_courses |-> {}]]
    /\ \E pub \in BOOLEAN, owner \in UserIds, course \in CourseIds \cup {NoCourse},
          pub2 \in BOOLEAN :
          documents = [d \in {"d1", "d2"} |->
                          IF d = "d1"
                          THEN [extracted_text |-> <<"a">>, uploaded_by |-> owner,
                                is_public |-> pub, course |-> course]
                          ELSE [extracted_text |-> <<"a">>, uploaded_by |-> "u2",
                                is_public |-> pub2, course |-> NoCourse]]
    /\ \E s1 \in AudioStatus, s2 \in AudioStatus, f1 \in QueryFiles, f2 \in QueryFiles :
          audio_files = <<StoredAudio("d1", s1, f1), StoredAudio("d2", s2, f2)>>
    /\ tasks = [t \in TaskIds |-> NoTask]
    /\ emails = {}
    /\ request = NoRequest
    /\ response = NoResponse

NextQuery == List \/ Retrieve \/ Download \/ Status \/ MyAudio

QuerySpec == InitQuery /\ [][NextQuery]_vars

(* The audio rows the role rules let the user see *)
VisibleTo(user) ==
    {i \in Rows :
        LET doc == documents[audio_files[i].document]
        IN  \/ users[user].role = "admin"
            \/ /\ users[user].role = "teacher"
               /\ audio_files[i].status = "completed"
               /\ (doc.uploaded_by = user \/ doc.is_public)
            \/ /\ users[user].role \notin {"admin", "teacher"}
               /\ audio_files[i].status = "completed"
               /\ \/ doc.is_public
                  \/ doc.course \in users[user].enrolled_courses
                  \/ doc.uploaded_by = user}

(* C10: list returns exactly the role-scoped rows (all of them to an admin),
   and retrieve, download, status and my_audio return no row outside them. *)
C10_RoleScopedQueryset ==
    request.view \in {"list", "retrieve", "download", "status", "my_audio"} =>
        IF request.user \in DOMAIN users
        THEN /\ response.ids \subseteq VisibleTo(request.user)
             /\ request.view = "list" => response.ids = VisibleTo(request.user)
             /\ (request.view = "list" /\ users[request.user].role = "admin")
                   => response.ids = Rows
             /\ response.status # 200 => (response.ids = {} /\ response.body = <<>>)
        ELSE response.ids = {} /\ response.body = <<>>

C10_Witness ==
    /\ request.view = "list"
    /\ request.user = "u1"
    /\ users["u1"].role = "teacher"
    /\ response.ids = {1}
    /\ audio_files[2].status = "completed"

(***************************************************************************)
(* Document upload: DocumentUploadSerializer and the validators of         *)
(* Document.file.  A file name is a sequence of characters.                *)
(***************************************************************************)
Stems == {<<>>, <<"a">>, <<"a", ".", "b">>}

Separators == {<<>>, <<".">>}

Spellings ==
    {<<>>, <<"p", "d", "f">>, <<"P", "D", "F">>, <<"P", "d", "f">>,
     <<"d", "o", "c", "x">>, <<"D", "O", "C", "X">>,
     <<"t", "x", "t">>, <<"T", "X", "T">>,
     <<"e", "x", "e">>, <<"p", "d">>, <<"p", "d", "f", "x">>}

FileNames == {stem \o sep \o e : stem \in Stems, sep \in Separators, e \in Spellings}

UploadLimit == 10 * 1024 * 1024

FileSizes == {0, 1, UploadLimit, UploadLimit + 1}

NewDocument == "d2"

LowerChar(c) ==
    CASE c = "P" -> "p" [] c = "D" -> "d" [] c = "F" -> "f" [] c = "O" -> "o"
      [] c = "C" -> "c" [] c = "X" -> "x" [] c = "T" -> "t" [] OTHER -> c

Lower(s) == [i \in 1..Len(s) |-> LowerChar(s[i])]

Last(parts) == parts[Len(parts)]

(* value.name.split('.')[-1].lower() *)
SplitExtension(name) == Lower(Last(Split(name, ".")))

allowed_extensions == {<<"p", "d", "f">>, <<"d", "o", "c", "x">>, <<"t", "x", "t">>}

(* Path(value.name).suffix[1:].lower(): the suffix starts at the last dot,
   and is empty when that dot is the first or the last character. *)
PathSuffix(name) ==
    LET dots == {i \in 1..Len(name) : name[i] = "."}
    IN  IF dots = {} THEN <<>>
        ELSE LET i == CHOOSE k \in dots : \A j \in dots : j <= k
             IN  IF 1 < i /\ i < Len(name) THEN SubSeq(name, i + 1, Len(name))
                 ELSE <<>>

FileExtensionValidator(name) == Lower(PathSuffix(name)) \in allowed_extensions

validate_file_NoSizeLimit(name, size) ==
    IF SplitExtension(name) \notin allowed_extensions
    THEN "File type not supported."
    ELSE "ok"

validate_file(name, size) ==
    IF size > UploadLimit THEN "File size cannot exceed 10MB."
    ELSE IF SplitExtension(name) \notin allowed_extensions
    THEN "File type not supported."
    ELSE "ok"

(* The errors of the file field: an empty file, then the validators of the
   model field, then validate_file. *)
UploadError(name, size) ==
    IF size = 0 THEN "The submitted file is empty."
    ELSE IF ~FileExtensionValidator(name) THEN "File extension is not allowed."
    ELSE validate_file(name, size)

CreatedDocument(user, name, size) ==
    [extracted_text |-> <<>>, uploaded_by |-> user, is_public |-> FALSE,
     course |-> NoCourse, status |-> "uploaded", file_name |-> name,
     file_type |-> SplitExtension(name), file_size |-> size]

UploadRequest(user, name, size) ==
    [view |-> "upload", user |-> user, token |-> AbsentToken, pk |-> 0,
     range |-> <<>>, file_name |-> name, file_size |-> size]

Upload ==
    /\ request = NoRequest
    /\ \E user \in UserIds, name \in FileNames, size \in FileSizes :
          /\ request' = UploadRequest(user, name, size)
          /\ IF UploadError(name, size) = "ok"
             THEN /\ documents' =
                        [d \in DOMAIN documents \cup {NewDocument} |->
                            IF d = NewDocument THEN CreatedDocument(user, name, size)
                            ELSE documents[d]]
                  /\ response' = [NoResponse EXCEPT !.status = 201]
             ELSE /\ documents' = documents
                  /\ response' = TextResponse(400, UploadError(name, size))
    /\ UNCHANGED <<config, users, audio_files, tasks, emails>>

InitUpload ==
    /\ config \in Configs
    /\ users = DefaultUsers
    /\ documents = [d \in DocIds |->
                       [extracted_text |-> <<>>, uploaded_by |-> "u1",
                        is_public |-> FALSE, course |-> NoCourse]]
    /\ audio_files = <<>>
    /\ tasks = [t \in TaskIds |-> NoTask]
    /\ emails = {}
    /\ request = NoRequest
    /\ response = NoResponse

UploadSpec == InitUpload /\ [][Upload]_vars

(* The extension of a file name as the claim reads it: the characters after
   the last dot, compared without regard to case. *)
EndsWith(name, e) ==
    /\ Len(name) > Len(e)
    /\ SubSeq(name, Len(name) - Len(e) + 1, Len(name)) = e
    /\ name[Len(name) - Len(e)] = "."

ExtensionIs(name, ext) ==
    \/ ext = "pdf" /\ \E e \in {<<"p", "d", "f">>, <<"P", "D", "F">>, <<"P", "d", "f">>} :
                         EndsWith(name, e)
    \/ ext = "docx" /\ \E e \in {<<"d", "o", "c", "x">>, <<"D", "O", "C", "X">>} :
                         EndsWith(name, e)
    \/ ext = "txt" /\ \E e \in {<<"t", "x", "t">>, <<"T", "X", "T">>} : EndsWith(name, e)

Spelled(ext) ==
    CASE ext = "pdf" -> <<"p", "d", "f">>
      [] ext = "docx" -> <<"d", "o", "c", "x">>
      [] ext = "txt" -> <<"t", "x", "t">>

(* C11: an upload creates a Document only if the file's extension is pdf,
   docx or txt in any case and its size is at most 10 MB; every other upload
   is answered with a validation error and creates nothing; the created
   Document stores the lower-cased extension and the size of the file. *)
C11_UploadValidation ==
    request.view = "upload" =>
        LET name == request.file_name
            size == request.file_size
            acceptable == /\ \E ext \in {"pdf", "docx", "txt"} : ExtensionIs(name, ext)
                          /\ size <= 10485760
        IN  /\ ~acceptable =>
                  /\ response.status = 400
                  /\ NewDocument \notin DOMAIN documents
            /\ NewDocument \in DOMAIN documents =>
                  /\ acceptable
                  /\ response.status = 201
                  /\ \E ext \in {"pdf", "docx", "txt"} :
                        /\ ExtensionIs(name, ext)
                        /\ documents[NewDocument].file_type = Spelled(ext)
                  /\ documents[NewDocument].file_size = size
            /\ NewDocument \notin DOMAIN documents => response.status = 400

C11_Witness ==
    /\ request.view = "upload"
    /\ request.file_name = <<"a", ".", "b", ".", "P", "D", "F">>
    /\ request.file_size = 10485760
    /\ NewDocument \in DOMAIN documents
    /\ documents[NewDocument].file_type = <<"p", "d", "f">>

(* C12: the uploader of a document can poll the state of its conversion with
   the status action at every stage: the answer is 200 and carries the row's
   status, with the Celery state of the task in progress while the row is
   processing and the stored error_message when it has failed. *)
C12_UploaderPollsEveryStage ==
    (/\ request.view = "status"
     /\ request.user \in DOMAIN users
     /\ request.pk \in DOMAIN audio_files
     /\ documents[audio_files[request.pk].document].uploaded_by = request.user
     /\ audio_files[request.pk].status \in {PROCESSING, FAILED, COMPLETED})
    => LET row == audio_files[request.pk]
       IN  /\ response.status = 200
           /\ response.data.status = row.status
           /\ row.status = PROCESSING /\ row.task_id # ""
                 => response.data.progress = tasks[row.task_id].state
           /\ row.status = FAILED => response.data.error_message = row.error_message

(* The user a stream request acts for once it is authenticated *)
ActingUser == IF request.token = "jwt:u1" THEN "u1" ELSE request.user

(* C13: stream serves an audio file to an authenticated user only if the
   user is an admin, or the document is public, or the user uploaded it, or
   the user is a teacher, or the document's course is one the user is
   enrolled in; every other authenticated request for an existing row is
   answered 403 'Access denied' with no bytes. *)
C13_StreamAccess ==
    (/\ request.view = "stream"
     /\ AuthenticatedRequest
     /\ request.pk \in DOMAIN audio_files)
    => LET user == users[ActingUser]
           document == documents[audio_files[request.pk].document]
           allowed == \/ user.role = "admin"
                      \/ document.is_public
                      \/ document.uploaded_by = ActingUser
                      \/ user.role = "teacher"
                      \/ document.course \in user.enrolled_courses
       IN  /\ response.status \in {200, 206} => allowed
           /\ Len(response.body) > 0 => allowed
           /\ allowed => response.status # 403
           /\ ~allowed => /\ response.status = 403
                          /\ response.text = "Access denied"
                          /\ response.body = <<>>

C13_Witness ==
    /\ request.view = "stream"
    /\ request.token = "<absent>"
    /\ request.user = "u1"
    /\ users["u1"].role = "student"
    /\ documents["d1"].uploaded_by = "u2"
    /\ ~documents["d1"].is_public
    /\ documents["d1"].course \in users["u1"].enrolled_courses
    /\ response.status = 200
    /\ Len(response.body) > 0

C13_DeniedWitness ==
    /\ request.view = "stream"
    /\ request.token = "jwt:u1"
    /\ users["u1"].role = "student"
    /\ documents["d1"].uploaded_by = "u2"
    /\ ~documents["d1"].is_public
    /\ documents["d1"].course \notin users["u1"].enrolled_courses
    /\ response.status = 403

(* C14: completed is terminal: once a row has been saved as completed, no
   later step (the removal of the temporary file, the e-mail task, the
   exception handler, a retry) changes its status. *)
C14_CompletedIsTerminal ==
    [][\A i \in DOMAIN audio_files :
          audio_files[i].status = COMPLETED => audio_files'[i].status = COMPLETED]_vars

(***************************************************************************)
(* Automatic conversion: the post_save handler of Document                 *)
(***************************************************************************)
MaxSaves == 2

MaxRows == 2

AutoTaskIds == {"t1", "t2"}

DocumentStatuses == {"uploaded", "processing", "ready", "error"}

READY == "ready"

(* instance.audio_files.filter(status='completed').exists() *)
existing_audio(d, rows) ==
    \E i \in DOMAIN rows : rows[i].document = d /\ rows[i].status = COMPLETED

(* The handler's conditions without the status test *)
ShouldConvert_AnyStatus(instance, d, rows) ==
    instance.extracted_text # <<>> /\ ~existing_audio(d, rows)

(* The conditions under which the handler calls convert_document_to_audio.delay:
   a string is true when it is not empty *)
ShouldConvert(instance, d, rows) ==
    /\ instance.status = READY
    /\ instance.extracted_text # <<>>
    /\ ~existing_audio(d, rows)

(* The message the handler sends: the uploader's preferences, gTTS *)
AutoTask(d, user) ==
    [NoTask EXCEPT !.state = "PENDING", !.pc = "queued", !.document_id = d,
                   !.voice_type = user.preferred_voice_type,
                   !.speech_rate = user.preferred_speech_rate,
                   !.language = user.preferred_language,
                   !.use_elevenlabs = FALSE, !.use_gemini = FALSE]

FreeTaskIds == {t \in DOMAIN tasks : tasks[t].state = "NONE"}

(* Document.save() followed by auto_convert_document_to_audio.  The call of
   delay may raise (the broker is unreachable): the handler logs the error and
   returns. *)
SaveDocument(d) ==
    /\ documents[d].updated_at < MaxSaves
    /\ \E status \in DocumentStatuses, text \in Texts, broker_up \in BOOLEAN :
          LET instance == [documents[d] EXCEPT !.status = status,
                                               !.extracted_text = text,
                                               !.updated_at = @ + 1]
          IN  /\ documents' = [documents EXCEPT ![d] = instance]
              /\ IF ShouldConvert(instance, d, audio_files) /\ broker_up
                 THEN /\ FreeTaskIds # {}
                      /\ LET t == IF "t1" \in FreeTaskIds THEN "t1"
                                  ELSE CHOOSE x \in FreeTaskIds : TRUE
                         IN  tasks' = [tasks EXCEPT ![t] =
                                          AutoTask(d, users[instance.uploaded_by])]
                 ELSE tasks' = tasks
    /\ UNCHANGED <<config, users, audio_files, emails, request, response>>

InitAuto ==
    /\ config = [GEMINI_AVAILABLE |-> TRUE, GEMINI_API_KEY |-> "key",
                 ELEVENLABS_AVAILABLE |-> TRUE, ELEVENLABS_API_KEY |-> "key"]
    /\ \E v \in VoiceTypes, r \in SpeechRates, l \in Languages :
          users = [u \in UserIds |->
                      [role |-> STUDENT, enrolled_courses |-> {},
                       preferred_voice_type |-> v,
                       preferred_speech_rate |-> IF u = "u1" THEN r ELSE 100,
                       preferred_language |-> l]]
    /\ documents = [d \in DocIds |->
                       [extracted_text |-> <<>>, uploaded_by |-> "u1",
                        is_public |-> FALSE, course |-> NoCourse,
                        status |-> "uploaded", updated_at |-> 0]]
    /\ audio_files = <<>>
    /\ tasks = [t \in AutoTaskIds |-> NoTask]
    /\ emails = {}
    /\ request = NoRequest
    /\ response = NoResponse

(* A worker starts an attempt while the table has room for its row *)
AutoBegin(t) == Len(audio_files) < MaxRows /\ Begin(t)

NextAuto ==
    \/ \E d \in DocIds : SaveDocument(d)
    \/ \E t \in AutoTaskIds : AutoBegin(t) \/ Generate(t) \/ Finish(t)

AutoSpec == InitAuto /\ [][NextAuto]_vars

InFlight(d) ==
    {t \in DOMAIN tasks : /\ tasks[t].document_id = d
                           /\ tasks[t].state \in {"PENDING", "STARTED", "RETRY"}}

CompletedRows(d) ==
    {i \in DOMAIN audio_files : /\ audio_files[i].document = d
                                 /\ audio_files[i].status = COMPLETED}

(* C15: at most one automatic conversion is in flight per document (a save of
   a ready document while a conversion has not completed enqueues no second
   task), and a document has at most one completed AudioFile. *)
C15_OneConversionPerDocument ==
    \A d \in DOMAIN documents :
        /\ Cardinality(InFlight(d)) <= 1
        /\ Cardinality(CompletedRows(d)) <= 1

(* C16: a run of the task for a document_id that matches no Document returns
   {'status': 'error', 'message': 'Document not found'}: the run ends by
   returning (Celery state SUCCESS, no exception), it creates no AudioFile and
   it is not retried. *)
C16_MissingDocumentReturnsError ==
    \A t \in DOMAIN tasks :
        (tasks[t].document_id = MissingDocument /\ tasks[t].attempts > 0)
        => /\ tasks[t].state = "SUCCESS"
           /\ tasks[t].error = ""
           /\ tasks[t].retries = 0
           /\ tasks[t].attempts = 1
           /\ \A i \in DOMAIN audio_files : audio_files[i].task_id # t

(* C17: every 206 response of stream is self-consistent whatever the Range
   header: start <= end < size of the file, Content-Length is the number of
   bytes in the body, and Content-Range names exactly the bytes returned. *)
C17_PartialContentConsistent ==
    (request.view = "stream" /\ response.status = 206) =>
        LET start == response.content_range[2]
            end   == response.content_range[3]
            size  == response.content_range[4]
        IN  /\ size = ServedFileSize
            /\ 0 <= start /\ start <= end /\ end < size
            /\ response.content_length = Len(response.body)
            /\ response.body = BytesOf(start, end)

(* C18: stream agrees with list and retrieve: an AudioFile that stream serves
   to a user who is not an admin is a row of that user's queryset (the same
   documents, and only completed conversions). *)
C18_StreamWithinQueryset ==
    (/\ request.view = "stream"
     /\ AuthenticatedRequest
     /\ response.status \in {200, 206}
     /\ users[ActingUser].role # "admin")
    => request.pk \in get_queryset(ActingUser)

(* A step that saves document d: auto_now advances updated_at *)
Saved(d) == documents'[d].updated_at = documents[d].updated_at + 1

(* The tasks a step puts on the queue *)
Enqueued == {t \in DOMAIN tasks : tasks[t].state = "NONE" /\ tasks'[t].state = "PENDING"}

(* The saved document is ready, has text and has no completed AudioFile *)
ReadyWithoutAudio(d) ==
    /\ documents'[d].status = "ready"
    /\ Len(documents'[d].extracted_text) > 0
    /\ \A i \in DOMAIN audio_files :
          audio_files[i].document = d => audio_files[i].status # "completed"

(* The enqueued task carries the uploader's preferences and asks for gTTS *)
UsesPreferences(t, d) ==
    LET uploader == users[documents'[d].uploaded_by]
    IN  /\ tasks'[t].document_id = d
        /\ tasks'[t].voice_type = uploader.preferred_voice_type
        /\ tasks'[t].speech_rate = uploader.preferred_speech_rate
        /\ tasks'[t].language = uploader.preferred_language
        /\ ~tasks'[t].use_elevenlabs
        /\ ~tasks'[t].use_gemini

(* C19 as stated: a save of a Document enqueues an automatic conversion if
   and only if the saved document is ready, has extracted text and has no
   completed AudioFile; the task carries the uploader's preferred voice type,
   speech rate and language and uses gTTS; no other step enqueues a task. *)
C19_SaveEnqueuesIff ==
    [][\A d \in DOMAIN documents :
          /\ Saved(d) => /\ (Enqueued # {}) <=> ReadyWithoutAudio(d)
                         /\ \A t \in Enqueued : UsesPreferences(t, d)
          /\ (\A x \in DOMAIN documents : ~Saved(x)) => Enqueued = {}]_vars

(* C19 amended: a save enqueues at most one automatic conversion, and only
   when the saved document is ready, has extracted text and has no completed
   AudioFile; the task carries the uploader's preferences and uses gTTS
   whatever providers are configured; when delay itself raises, the save
   enqueues nothing; no other step enqueues a task. *)
C19_SaveEnqueuesOnlyIf ==
    [][\A d \in DOMAIN documents :
          /\ Saved(d) => /\ (Enqueued # {}) => ReadyWithoutAudio(d)
                         /\ Cardinality(Enqueued) <= 1
                         /\ \A t \in Enqueued : UsesPreferences(t, d)
          /\ (\A x \in DOMAIN documents : ~Saved(x)) => Enqueued = {}
          /\ \A i \in DOMAIN audio_files :
                audio_files[i].audio_file.present
                   => audio_files[i].audio_file.engine = "gtts"]_vars

C19_Witness ==
    /\ documents["d1"].status = "ready"
    /\ documents["d1"].extracted_text = <<" ">>
    /\ users["u1"].preferred_speech_rate = 150
    /\ config.GEMINI_AVAILABLE /\ config.GEMINI_API_KEY = "key"
    /\ tasks["t1"].state = "SUCCESS"
    /\ tasks["t1"].speech_rate = 150
    /\ ~tasks["t1"].use_elevenlabs
    /\ Len(audio_files) = 1
    /\ audio_files[1].status = "completed"
    /\ audio_files[1].audio_file.engine = "gtts"

(* The positions at which the attempt of task t caught an exception of the
   Gemini try block, and those at which an exception reached the task *)
CaughtAt(t) ==
    {i \in DOMAIN tasks[t].trace :
        tasks[t].trace[i] \in {"caught:" \o e : e \in ExceptionTexts}}

RaisedAt(t) ==
    {i \in DOMAIN tasks[t].trace :
        tasks[t].trace[i] \in {"raised:" \o e : e \in ExceptionTexts}}

(* C20: on the Gemini path an exception of the Gemini call, or of anything
   else in its try block, is answered in the same attempt by gTTS on the
   original text: the exception never reaches the task, the record fails only
   if the fallback or a later step raises, and otherwise it is completed with
   the gTTS audio of the original text.  Without a usable Gemini the function
   is gTTS on the original text, and an empty Gemini response has the original
   text spoken. *)
C20_GeminiFailureFallsBack ==
    /\ \A t \in DOMAIN tasks :
          "dispatch:gemini" \in Events(t) =>
             LET task == tasks[t]
                 row  == audio_files[task.audio_file]
             IN  /\ "raised:LLM error" \notin Events(t)
                 /\ Cardinality(CaughtAt(t)) <= 1
                 /\ \A k \in CaughtAt(t) :
                       /\ task.trace[k + 1] = "gtts"
                       /\ \A j \in RaisedAt(t) : j > k + 1
                 /\ (CaughtAt(t) # {} /\ RaisedAt(t) = {}) =>
                       /\ task.pc \in {"saved", "done"}
                       /\ row.status = "completed"
                       /\ row.audio_file.engine = "gtts"
                       /\ row.audio_file.source = "original"
                 /\ (CaughtAt(t) # {} /\ row.status = "failed") =>
                       row.error_message \in {"TTS error", "audio error", "cleanup error"}
    /\ \A rate \in {tasks[t].speech_rate : t \in {x \in DOMAIN tasks : tasks[x].use_gemini}},
          llm \in {"ok", "empty", "exc"},
          fault \in {"none", "tts", "pydub"}, fallback \in {"none", "tts", "pydub"} :
          /\ (~config.GEMINI_AVAILABLE \/ config.GEMINI_API_KEY = "") =>
                generate_audio_gemini(rate, config, llm, fault, fallback)
                   = generate_audio_gtts(rate, fallback)
          /\ (config.GEMINI_AVAILABLE /\ config.GEMINI_API_KEY # "" /\ fault = "none") =>
                LET out == generate_audio_gemini(rate, config, llm, fault, fallback)
                IN  /\ llm = "empty" => out.exc = "" /\ out.temp.source = "original"
                    /\ (llm = "exc" /\ fallback = "none") =>
                          /\ out.exc = ""
                          /\ out.temp.engine = "gtts"
                          /\ out.temp.source = "original"

C20_Witness ==
    \E t \in DOMAIN tasks :
        /\ "dispatch:gemini" \in Events(t)
        /\ "caught:LLM error" \in Events(t)
        /\ tasks[t].state = "SUCCESS"
        /\ tasks[t].attempts = 1
        /\ audio_files[tasks[t].audio_file].status = "completed"
        /\ audio_files[tasks[t].audio_file].audio_file.engine = "gtts"
        /\ audio_files[tasks[t].audio_file].audio_file.source = "original"

(* The text is empty or consists of spaces only *)
Blank(text) == \A k \in 1..Len(text) : text[k] = " "

(* The trace events of a call to a TTS provider *)
ProviderEvents ==
    {"dispatch:gemini", "dispatch:elevenlabs", "dispatch:gtts",
     "llm", "gtts", "elevenlabs", "adjust_speed"}

(* C21: when the document's extracted_text is empty or only whitespace, the
   attempt calls no TTS provider and saves its AudioFile as failed with
   error_message 'No text content found in document' and no audio; a row
   failed in this way stays failed in every later step, so it never reaches
   completed. *)
C21_BlankTextFails ==
    [][/\ \A t \in DOMAIN tasks :
             (/\ tasks[t].pc = "created"
              /\ tasks'[t].pc # "created"
              /\ Blank(documents[tasks[t].document_id].extracted_text))
             => LET row == tasks[t].audio_file
                    after == {tasks'[t].trace[k] : k \in DOMAIN tasks'[t].trace}
                IN  /\ after \cap ProviderEvents = {}
                    /\ "raised:No text content found in document" \in after
                    /\ tasks'[t].pc # "saved"
                    /\ audio_files'[row].status = "failed"
                    /\ audio_files'[row].error_message = "No text content found in document"
                    /\ ~audio_files'[row].audio_file.present
        /\ \A i \in DOMAIN audio_files :
             (/\ audio_files[i].status = "failed"
              /\ audio_files[i].error_message = "No text content found in document")
             => /\ i \in DOMAIN audio_files'
                /\ audio_files'[i].status = "failed"]_vars

C21_Witness ==
    \E t \in DOMAIN tasks :
        /\ tasks[t].document_id \in DOMAIN documents
        /\ documents[tasks[t].document_id].extracted_text = <<" ">>
        /\ tasks[t].use_gemini /\ tasks[t].use_elevenlabs
        /\ tasks[t].state = "FAILURE"
        /\ tasks[t].attempts = 4
        /\ Len(audio_files) = 4
        /\ \A i \in DOMAIN audio_files :
              /\ audio_files[i].status = "failed"
              /\ audio_files[i].error_message = "No text content found in document"

====
